---- MODULE Spec2Model ----
(***************************************************************************)
(* Model of cms/djangoapps/maintenance/views.py: the force publish course  *)
(* maintenance view (ForcePublishCourseView.post), the course key          *)
(* validation of MaintenanceBaseView, and the part of the module store the *)
(* view calls.  Each request handler is a process; a handler's steps are   *)
(* split at its accesses to the module store, which is the state shared by *)
(* concurrent requests.                                                    *)
(***************************************************************************)
EXTENDS Naturals, Sequences, FiniteSets, TLC

VARIABLES
    course_index,     \* module store: split course -> its branch versions, or None
    next_version,     \* the next content version an edit creates
    pc,               \* per request handler: the step of post() it is at
    request,          \* per request handler: request.user and request.POST
    context,          \* per request handler: self.context of the view instance
    locals,           \* per request handler: local variables of post()
    response,         \* per request handler: how post() ended
    returned,         \* per request handler: the line of the return that ended post()
    audit_log,        \* the records written by logging.info
    calls,            \* number of requests received so far
    pre,              \* history: course_index when the handler's request arrived
    quiet,            \* history: no other operation ran since the request arrived
    prev              \* history: the handler's previous request, when it ran alone

vars == <<course_index, next_version, pc, request, context, locals, response,
          returned, audit_log, calls, pre, quiet, prev>>

(***************************************************************************)
(* Bounds of the model.                                                    *)
(***************************************************************************)
MaxCalls == 2
MaxVersion == 2

Procs == {"h1", "h2"}

(***************************************************************************)
(* Values.  Python's None and [] are both modelled by the empty tuple      *)
(* where a versions mapping is expected; a request parameter that is       *)
(* absent is the string NoParam.                                           *)
(***************************************************************************)
None == <<>>
EmptyList == <<>>
NoParam == "None"

GlobalStaff == "admin"
Users == {GlobalStaff, "test"}

SplitCourse == "course-v1:org+split+run"
MongoCourse == "org/mongo/run"
AbsentCourse == "course-v1:e+d+X"
SplitCourses == {SplitCourse}
\* A second split course, which no request of the model names.
OtherCourse == "course-v1:org+other+run"
WellFormedKeys == {SplitCourse, MongoCourse, AbsentCourse}
CourseIdParams == {"", " ", "edx"} \cup WellFormedKeys
\* The dry-run parameter comes from a checkbox: "It is obtained from checkbox
\* so it has either values 'on' or ''" (docstring of post, line 141).
DryRunParams == {"", "on"}

Versions(d, p) == [draft_branch |-> d, published_branch |-> p]

\* Python truth value of a request parameter: None and '' are false.
Truthy(s) == s \notin {NoParam, ""}

COURSE_KEY_ERROR_MESSAGES ==
    [empty_course_key |-> "Please provide course id.",
     invalid_course_key |-> "Invalid course key.",
     course_key_not_found |-> "No matching course found."]

MSG_UNSUPPORTED == "Force publish course does not support old mongo style courses."
MSG_ALREADY_PUBLISHED == "Course is already in published state."
MSG_COULD_NOT_PUBLISH == "Could not publish course."

(***************************************************************************)
(* The collaborators of the view: the global staff gate, the course key    *)
(* parser and the module store.                                            *)
(***************************************************************************)
require_global_staff(user) == user = GlobalStaff

\* Faulty variant: post() is not decorated.
GateOpen(user) == TRUE

\* Line 133: post() is decorated with require_global_staff.
Gate(user) == require_global_staff(user)

\* CourseKey.from_string: the key, or None where InvalidKeyError is raised.
from_string(text) ==
    IF text \in WellFormedKeys THEN [course |-> text, branch |-> ""] ELSE None

for_branch(key, branch) == [key EXCEPT !.branch = branch]

has_course(index, key) ==
    \/ key.course = MongoCourse
    \/ key.course \in SplitCourses /\ index[key.course] # None

\* modulestore()._get_modulestore_for_courselike: the store that holds the key.
get_modulestore_for_courselike(key) ==
    IF key.course = MongoCourse THEN "mongo" ELSE "split"

\* Faulty variant: the capability check accepts every store.
has_force_publish_course_any(store) == TRUE

\* hasattr(source_store, 'force_publish_course')
has_force_publish_course(store) == store = "split"

\* contentstore get_course_versions: the branch versions of the course index.
get_course_versions(index, course_id) ==
    IF course_id \in DOMAIN index THEN index[course_id] ELSE None

\* The split store's force_publish_course(key, user, commit=True) on an
\* existing course: the published branch is pointed at the version the draft
\* branch has when the store runs it.
force_publish_course(index, key) ==
    [index EXCEPT ![key.course] =
        Versions(index[key.course].draft_branch, index[key.course].draft_branch)]

(***************************************************************************)
(* MaintenanceBaseView.validate_course_key: the exception it raises (""    *)
(* when it returns), the exception's message, and the key it returns.      *)
(***************************************************************************)
validate_course_key(index, course_key) ==
    IF ~Truthy(course_key)
    THEN [raised |-> "Exception",
          message |-> COURSE_KEY_ERROR_MESSAGES.empty_course_key, key |-> None]
    ELSE IF from_string(course_key) = None
    THEN [raised |-> "InvalidKeyError", message |-> "", key |-> None]
    ELSE IF ~has_course(index, from_string(course_key))
    THEN [raised |-> "ItemNotFoundError",
          message |-> COURSE_KEY_ERROR_MESSAGES.course_key_not_found, key |-> None]
    ELSE [raised |-> "", message |-> "",
          key |-> for_branch(from_string(course_key), "draft-branch")]

\* Faulty variant: a request without the dry-run parameter is a dry run.
IsDryRunUnlessEmpty(dry_run) == dry_run # ""

\* Faulty variant: the dry-run parameter is ignored.
IsDryRunIgnored(dry_run) == FALSE

\* Line 145: is_dry_run = bool(request.POST.get('dry-run')).
IsDryRun(dry_run) == Truthy(dry_run)

\* Faulty variant: the branches are always taken to be equal.
AlreadyPublishedAlways(current_versions) == TRUE

\* Faulty variant: the branches are never taken to be equal.
AlreadyPublishedNever(current_versions) == FALSE

\* Line 184: publish and draft are not different.
AlreadyPublished(current_versions) ==
    current_versions.published_branch = current_versions.draft_branch

\* Faulty variant: the test of the store's result is inverted.
PublishFailedInverted(updated_versions) == updated_versions # None

\* Line 207: if not updated_versions.
PublishFailed(updated_versions) == updated_versions = None

\* Faulty variant: every resolution failure reports the exception's message.
ResolutionMessageRaw(v) == v.message

\* The except clauses of post(): the message placed in the context.
ResolutionMessage(v) ==
    IF v.raised = "InvalidKeyError"
    THEN COURSE_KEY_ERROR_MESSAGES.invalid_course_key
    ELSE v.message

(***************************************************************************)
(* The view instance and the handler's local state.                        *)
(***************************************************************************)
\* Faulty variant: the context starts with the error flag set.
InitContextFlagged ==
    [error |-> TRUE, msg |-> "",
     current_versions |-> EmptyList, updated_versions |-> EmptyList,
     form_data |-> [course_id |-> "", is_dry_run |-> TRUE]]

\* Lines 73-79 and 121-130: the context a view instance starts with.
InitContext ==
    [error |-> FALSE, msg |-> "",
     current_versions |-> EmptyList, updated_versions |-> EmptyList,
     form_data |-> [course_id |-> "", is_dry_run |-> TRUE]]

InitLocals ==
    [is_dry_run |-> FALSE, course_usage_key |-> None, source_store |-> "",
     current_versions |-> None]

\* request.POST holds the parameters course-id and dry-run.
NoRequest == [user |-> "", course_id |-> NoParam, dry_run |-> NoParam]

LogRecord(p, event) ==
    [user |-> request[p].user, course_id |-> request[p].course_id, event |-> event]

\* How a finished request ended, read off the response and the context.
Outcome(p) ==
    IF response[p] # "rendered" THEN response[p]
    ELSE IF context[p].error THEN "resolution_failed"
    ELSE IF context[p].msg = MSG_UNSUPPORTED THEN "unsupported_backend"
    ELSE IF context[p].msg = MSG_ALREADY_PUBLISHED THEN "already_published"
    ELSE IF context[p].msg = MSG_COULD_NOT_PUBLISH THEN "could_not_publish"
    ELSE IF context[p].updated_versions # EmptyList THEN "applied"
    ELSE "dry_run"

\* History: a step of handler p (or of the environment, p = "") disturbs
\* every other handler's request, whose history is then dropped.
Disturb(p) ==
    /\ quiet' = [q \in Procs |-> q = p /\ quiet[q]]
    /\ pre' = [q \in Procs |-> IF q = p /\ quiet[q] THEN pre[q] ELSE None]
    /\ prev' = [q \in Procs |-> IF q = p /\ quiet[q] THEN prev[q] ELSE None]

Init ==
    /\ \E v \in {Versions(1, 0), Versions(0, 0)} :
            course_index = [c \in SplitCourses \cup {OtherCourse} |->
                                IF c = OtherCourse THEN Versions(1, 0) ELSE v]
    /\ next_version = 2
    /\ pc = [p \in Procs |-> "idle"]
    /\ request = [p \in Procs |-> NoRequest]
    /\ context = [p \in Procs |-> InitContext]
    /\ locals = [p \in Procs |-> InitLocals]
    /\ response = [p \in Procs |-> ""]
    /\ returned = [p \in Procs |-> 0]
    /\ audit_log = <<>>
    /\ calls = 0
    /\ pre = [p \in Procs |-> None]
    /\ quiet = [p \in Procs |-> FALSE]
    /\ prev = [p \in Procs |-> None]

(***************************************************************************)
(* A request arrives at a handler that is free.  History: pre, quiet and   *)
(* prev are set for the new request.                                       *)
(***************************************************************************)
Arrive(p) ==
    /\ pc[p] \in {"idle", "done"}
    /\ calls < MaxCalls
    /\ calls' = calls + 1
    /\ quiet' = [q \in Procs |-> q = p]
    /\ pre' = [q \in Procs |-> IF q = p THEN course_index ELSE None]
    /\ prev' = [q \in Procs |->
            IF q = p /\ pc[p] = "done" /\ quiet[p]
            THEN [outcome |-> Outcome(p), request |-> request[p], after |-> course_index]
            ELSE None]

(***************************************************************************)
(* Line 133: the require_global_staff decorator rejects the request of a   *)
(* user who is not global staff; post() does not run.                      *)
(***************************************************************************)
Forbidden(p, user) ==
    /\ ~Gate(user)
    /\ Arrive(p)
    /\ request' = [request EXCEPT ![p] = [NoRequest EXCEPT !.user = user]]
    /\ context' = [context EXCEPT ![p] = InitContext]
    /\ locals' = [locals EXCEPT ![p] = InitLocals]
    /\ response' = [response EXCEPT ![p] = "forbidden"]
    /\ returned' = [returned EXCEPT ![p] = 0]
    /\ pc' = [pc EXCEPT ![p] = "done"]
    /\ UNCHANGED <<course_index, next_version, audit_log>>

(***************************************************************************)
(* post() on a new view instance, up to the return after course key        *)
(* validation (lines 121-167).                                             *)
(***************************************************************************)
Post(p, user, course_id, dry_run) ==
    /\ Gate(user)
    /\ Arrive(p)
    /\ request' = [request EXCEPT ![p] =
            [user |-> user, course_id |-> course_id, dry_run |-> dry_run]]
    /\ LET v == validate_course_key(course_index, course_id)
           form == [course_id |-> course_id, is_dry_run |-> IsDryRun(dry_run)]
       IN IF v.raised # ""
          THEN /\ context' = [context EXCEPT ![p] =
                       [InitContext EXCEPT !.form_data = form, !.error = TRUE,
                                           !.msg = ResolutionMessage(v)]]
               /\ locals' = [locals EXCEPT ![p] = InitLocals]
               /\ response' = [response EXCEPT ![p] = "rendered"]
               /\ returned' = [returned EXCEPT ![p] = 167]
               /\ pc' = [pc EXCEPT ![p] = "done"]
          ELSE /\ context' = [context EXCEPT ![p] =
                       [InitContext EXCEPT !.form_data = form]]
               /\ locals' = [locals EXCEPT ![p] =
                       [InitLocals EXCEPT !.is_dry_run = IsDryRun(dry_run),
                                          !.course_usage_key = v.key]]
               /\ response' = [response EXCEPT ![p] = ""]
               /\ returned' = [returned EXCEPT ![p] = 0]
               /\ pc' = [pc EXCEPT ![p] = "capability"]
    /\ UNCHANGED <<course_index, next_version, audit_log>>

\* A handler step that ends post() with the return render_response() at
\* the given line; the locals of post() end with it.
Render(p, ctx, line) ==
    /\ context' = [context EXCEPT ![p] = ctx]
    /\ locals' = [locals EXCEPT ![p] = InitLocals]
    /\ response' = [response EXCEPT ![p] = "rendered"]
    /\ returned' = [returned EXCEPT ![p] = line]
    /\ pc' = [pc EXCEPT ![p] = "done"]

\* A handler step that ends post() with an exception leaving it.
Raise(p) ==
    /\ response' = [response EXCEPT ![p] = "exception"]
    /\ locals' = [locals EXCEPT ![p] = InitLocals]
    /\ pc' = [pc EXCEPT ![p] = "done"]
    /\ UNCHANGED <<context, returned>>

Log(p, event) == audit_log' = Append(audit_log, LogRecord(p, event))

(***************************************************************************)
(* Lines 169-179: the store of the course and its capability check.        *)
(***************************************************************************)
CapabilityCheck(p) ==
    /\ pc[p] = "capability"
    /\ LET source_store == get_modulestore_for_courselike(locals[p].course_usage_key)
       IN IF ~has_force_publish_course(source_store)
          THEN /\ Render(p, [context[p] EXCEPT !.msg = MSG_UNSUPPORTED], 179)
               /\ Log(p, "unsupported")
          ELSE /\ locals' = [locals EXCEPT ![p].source_store = source_store]
               /\ pc' = [pc EXCEPT ![p] = "versions"]
               /\ UNCHANGED <<context, response, returned, audit_log>>
    /\ Disturb(p)
    /\ UNCHANGED <<course_index, next_version, request, calls>>

(***************************************************************************)
(* Line 181: current_versions = get_course_versions(course_id).  Reading   *)
(* the branches of a course that has no index raises (line 184 subscripts  *)
(* the result), and post() has no handler around it.                       *)
(***************************************************************************)
GetCourseVersions(p) ==
    /\ pc[p] = "versions"
    /\ LET current_versions == get_course_versions(course_index, request[p].course_id)
       IN IF current_versions = None
          THEN Raise(p)
          ELSE /\ locals' = [locals EXCEPT ![p].current_versions = current_versions]
               /\ pc' = [pc EXCEPT ![p] = "compare"]
               /\ UNCHANGED <<context, response, returned>>
    /\ Disturb(p)
    /\ UNCHANGED <<course_index, next_version, request, audit_log, calls>>

(***************************************************************************)
(* Lines 183-203: the equality check, then the dry run check.  Both work   *)
(* on the handler's own data only.                                         *)
(***************************************************************************)
Compare(p) ==
    /\ pc[p] = "compare"
    /\ LET current_versions == locals[p].current_versions
       IN IF AlreadyPublished(current_versions)
          THEN /\ Render(p, [context[p] EXCEPT !.msg = MSG_ALREADY_PUBLISHED], 192)
               /\ Log(p, "already_published")
          ELSE IF locals[p].is_dry_run
          THEN /\ Render(p, [context[p] EXCEPT !.current_versions = current_versions],
                         203)
               /\ Log(p, "dry_run")
          ELSE /\ context' = [context EXCEPT ![p].current_versions = current_versions]
               /\ pc' = [pc EXCEPT ![p] = "publish"]
               /\ UNCHANGED <<locals, response, returned, audit_log>>
    /\ Disturb(p)
    /\ UNCHANGED <<course_index, next_version, request, calls>>

(***************************************************************************)
(* Lines 204-229: the call of force_publish_course and the handling of     *)
(* its result.  On a course whose index is gone the store either returns   *)
(* nothing or raises.                                                      *)
(***************************************************************************)
ForcePublish(p) ==
    /\ pc[p] = "publish"
    /\ LET key == locals[p].course_usage_key
           gone == course_index[key.course] = None
           index == IF gone THEN course_index
                    ELSE force_publish_course(course_index, key)
           updated_versions == index[key.course]
       IN /\ course_index' = index
          /\ \/ /\ gone
                /\ Raise(p)
                /\ UNCHANGED audit_log
             \/ IF PublishFailed(updated_versions)
                THEN /\ Render(p, [context[p] EXCEPT !.msg = MSG_COULD_NOT_PUBLISH],
                               215)
                     /\ Log(p, "could_not_publish")
                ELSE /\ Render(p, [context[p] EXCEPT
                                       !.updated_versions = updated_versions], 229)
                     /\ Log(p, "published")
    /\ Disturb(p)
    /\ UNCHANGED <<next_version, request, calls>>

(***************************************************************************)
(* Other operations on the module store that run beside the view: an edit  *)
(* of the draft, an ordinary publish, the deletion of a course.            *)
(***************************************************************************)
EnvFrame ==
    /\ Disturb("")
    /\ UNCHANGED <<pc, request, context, locals, response, returned, audit_log,
                   calls>>

Edit(c) ==
    /\ course_index[c] # None
    /\ next_version <= MaxVersion
    /\ course_index' = [course_index EXCEPT ![c].draft_branch = next_version]
    /\ next_version' = next_version + 1
    /\ EnvFrame

Publish(c) ==
    /\ course_index[c] # None
    /\ course_index[c].draft_branch # course_index[c].published_branch
    /\ course_index' = [course_index EXCEPT
                            ![c].published_branch = course_index[c].draft_branch]
    /\ UNCHANGED next_version
    /\ EnvFrame

DeleteCourse(c) ==
    /\ course_index[c] # None
    /\ course_index' = [course_index EXCEPT ![c] = None]
    /\ UNCHANGED next_version
    /\ EnvFrame

Next ==
    \/ \E p \in Procs, user \in Users : Forbidden(p, user)
    \/ \E p \in Procs, user \in Users, course_id \in CourseIdParams,
          dry_run \in DryRunParams : Post(p, user, course_id, dry_run)
    \/ \E p \in Procs : CapabilityCheck(p)
    \/ \E p \in Procs : GetCourseVersions(p)
    \/ \E p \in Procs : Compare(p)
    \/ \E p \in Procs : ForcePublish(p)
    \/ \E c \in SplitCourses : Edit(c)
    \/ \E c \in SplitCourses : Publish(c)
    \/ \E c \in SplitCourses : DeleteCourse(c)

Spec == Init /\ [][Next]_vars

(***************************************************************************)
(* Requests of a global staff user on the split course in which the        *)
(* dry-run parameter may also be absent (request.POST.get returns None).   *)
(***************************************************************************)
NextParams ==
    \/ \E p \in Procs, dry_run \in DryRunParams \cup {NoParam} :
          Post(p, GlobalStaff, SplitCourse, dry_run)
    \/ \E p \in Procs : CapabilityCheck(p)
    \/ \E p \in Procs : GetCourseVersions(p)
    \/ \E p \in Procs : Compare(p)
    \/ \E p \in Procs : ForcePublish(p)
    \/ \E c \in SplitCourses : Edit(c)
    \/ \E c \in SplitCourses : Publish(c)
    \/ \E c \in SplitCourses : DeleteCourse(c)

SpecParams == Init /\ [][NextParams]_vars

(***************************************************************************)
(* Properties.                                                             *)
(*                                                                         *)
(* Finished(p): handler p's request has returned.  Alone(p): it has        *)
(* returned and no other operation, of another handler or of the           *)
(* environment, ran since it arrived, so that pre[p] is the store before   *)
(* the call and course_index the store after it.                           *)
(***************************************************************************)
Finished(p) == pc[p] = "done" /\ response[p] # "forbidden"
Alone(p) == Finished(p) /\ quiet[p]
Commit(p) == request[p].dry_run \in {NoParam, ""}
OnSplitCourse(p) == request[p].course_id \in SplitCourses
DivergedBefore(p) ==
    /\ OnSplitCourse(p)
    /\ pre[p][request[p].course_id] # None
    /\ pre[p][request[p].course_id].draft_branch
            # pre[p][request[p].course_id].published_branch
EqualBefore(p) ==
    /\ OnSplitCourse(p)
    /\ pre[p][request[p].course_id] # None
    /\ pre[p][request[p].course_id].draft_branch
            = pre[p][request[p].course_id].published_branch

\* C1: a commit that runs alone on an existing split course whose branches
\* differ leaves the published branch at the draft version read before the
\* call and leaves the draft branch as it was.
C1_CommitPublishesDraft ==
    \A p \in Procs :
        (Alone(p) /\ Commit(p) /\ DivergedBefore(p)) =>
            LET c == request[p].course_id
            IN /\ course_index[c] # None
               /\ course_index[c].published_branch = pre[p][c].draft_branch
               /\ course_index[c].draft_branch = pre[p][c].draft_branch

C1_Witness ==
    \E p \in Procs :
        /\ Alone(p) /\ Commit(p) /\ DivergedBefore(p)
        /\ course_index[request[p].course_id].published_branch
                # pre[p][request[p].course_id].published_branch

\* C2: a dry run that runs alone on a course whose branches differ ends in
\* the dry-run outcome, reports the versions read, and leaves both branch
\* pointers as they were, still different.
C2_DryRunChangesNothing ==
    \A p \in Procs :
        (Alone(p) /\ ~Commit(p) /\ DivergedBefore(p)) =>
            LET c == request[p].course_id
            IN /\ Outcome(p) = "dry_run"
               /\ context[p].current_versions = pre[p][c]
               /\ context[p].updated_versions = EmptyList
               /\ course_index = pre[p]
               /\ course_index[c].draft_branch # course_index[c].published_branch

C2_Witness ==
    \E p \in Procs :
        /\ Alone(p) /\ ~Commit(p) /\ DivergedBefore(p)
        /\ Outcome(p) = "dry_run"

\* C3: on an existing split course whose branches are equal, a request with
\* either value of the dry-run flag ends in the already-published outcome
\* with its message and moves no branch pointer.
C3_EqualBranchesAreNoOp ==
    \A p \in Procs :
        (Alone(p) /\ EqualBefore(p)) =>
            /\ Outcome(p) = "already_published"
            /\ context[p].msg = "Course is already in published state."
            /\ ~context[p].error
            /\ course_index = pre[p]

C3_Witness ==
    \E p \in Procs :
        /\ Alone(p) /\ EqualBefore(p) /\ ~Commit(p)
        /\ Outcome(p) = "already_published"

\* C4: when a handler's commit was applied and its next request is a commit
\* on the same course, with no other operation since the first arrived, the
\* second ends in the already-published outcome and the branch pointers are
\* those the first call left.
C4_CommitIsIdempotent ==
    \A p \in Procs :
        (/\ Alone(p) /\ Commit(p)
         /\ prev[p] # None
         /\ prev[p].outcome = "applied"
         /\ prev[p].request.course_id = request[p].course_id) =>
            /\ Outcome(p) = "already_published"
            /\ course_index = prev[p].after

C4_Witness ==
    \E p \in Procs :
        /\ Alone(p) /\ Commit(p)
        /\ prev[p] # None
        /\ prev[p].outcome = "applied"
        /\ prev[p].request.course_id = request[p].course_id
        /\ Outcome(p) = "already_published"

\* C5: every request on an old mongo course, whatever its dry-run flag and
\* whatever the branch versions in the store, ends in the unsupported
\* outcome with its message, and a request that ran alone moved no pointer.
C5_OldMongoIsUnsupported ==
    \A p \in Procs :
        (Finished(p) /\ request[p].course_id = MongoCourse) =>
            /\ Outcome(p) = "unsupported_backend"
            /\ context[p].msg
                 = "Force publish course does not support old mongo style courses."
            /\ context[p].updated_versions = EmptyList
            /\ quiet[p] => course_index = pre[p]

C5_Witness ==
    \E p \in Procs :
        /\ Alone(p) /\ request[p].course_id = MongoCourse
        /\ Commit(p)
        /\ \E c \in SplitCourses :
              /\ course_index[c] # None
              /\ course_index[c].draft_branch # course_index[c].published_branch

\* C6: an empty course id, a non-empty text that is no course key, and a
\* well-formed key of no course in the store end the request with the error
\* flag set and the message of their case, and no branch pointer changes.
C6_ResolutionFailures ==
    \A p \in Procs :
        Alone(p) =>
            LET id == request[p].course_id
            IN /\ id \in {NoParam, ""} =>
                    /\ context[p].error
                    /\ context[p].msg = "Please provide course id."
               /\ id \in {" ", "edx"} =>
                    /\ context[p].error
                    /\ context[p].msg = "Invalid course key."
               /\ (\/ id = AbsentCourse
                   \/ id \in SplitCourses /\ pre[p][id] = None) =>
                    /\ context[p].error
                    /\ context[p].msg = "No matching course found."
               /\ context[p].error =>
                    /\ Outcome(p) = "resolution_failed"
                    /\ course_index = pre[p]
                    /\ context[p].current_versions = EmptyList
                    /\ context[p].updated_versions = EmptyList

C6_Witness ==
    \E p, q \in Procs :
        /\ Alone(p) /\ request[p].course_id = AbsentCourse
        /\ pc[q] = "done" /\ response[q] = "rendered"
        /\ request[q].course_id = "edx" /\ context[q].error

Applied(p) == Finished(p) /\ Outcome(p) = "applied"

\* C7: of two commit requests on the same course that compared the same
\* branch versions, at most one ends in the applied outcome.
C7_AtMostOneApplied ==
    \A p, q \in Procs :
        (/\ p # q
         /\ Applied(p) /\ Applied(q)
         /\ request[p].course_id = request[q].course_id) =>
            context[p].current_versions # context[q].current_versions

\* C8: every request that ends in the applied outcome reports updated
\* versions whose published and draft branches both equal the draft version
\* the request read at comparison time.
C8_AppliedMatchesSnapshot ==
    \A p \in Procs :
        Applied(p) =>
            /\ context[p].updated_versions.published_branch
                    = context[p].current_versions.draft_branch
            /\ context[p].updated_versions.draft_branch
                    = context[p].current_versions.draft_branch

\* C9: no request ends with an exception leaving post(); every failure is
\* returned as a rendered result.
C9_NoExceptionEscapes ==
    \A p \in Procs : pc[p] = "done" => response[p] # "exception"

\* C10: every request that post() handled has, when it returns, a record in
\* the audit log naming its user and its course id.
C10_EveryRequestIsLogged ==
    \A p \in Procs :
        Finished(p) =>
            \E i \in 1..Len(audit_log) :
                /\ audit_log[i].user = request[p].user
                /\ audit_log[i].course_id = request[p].course_id

\* C11: a course id text of white space only fails with the message of the
\* empty course id, "Please provide course id.".
C11_WhitespaceIsEmpty ==
    \A p \in Procs :
        (Finished(p) /\ request[p].course_id = " ") =>
            /\ context[p].error
            /\ context[p].msg = "Please provide course id."

\* C12: the request of a user who is not global staff is rejected before
\* course resolution and changes no branch pointer, also when such requests
\* follow one another; the request of a global staff user is not rejected
\* by the gate, and only such a request is ever inside post().
C12_OnlyGlobalStaffRuns ==
    \A p \in Procs :
        /\ request[p].user \notin {"", GlobalStaff} =>
              /\ pc[p] = "done"
              /\ response[p] = "forbidden"
              /\ context[p] = InitContext
              /\ locals[p] = InitLocals
              /\ quiet[p] => course_index = pre[p]
              /\ (quiet[p] /\ prev[p] # None /\ prev[p].request.user # GlobalStaff)
                    => course_index = prev[p].after
        /\ request[p].user = GlobalStaff => response[p] # "forbidden"
        /\ pc[p] \notin {"idle", "done"} => request[p].user = GlobalStaff

C12_Witness ==
    \E p \in Procs :
        /\ response[p] = "forbidden" /\ quiet[p]
        /\ prev[p] # None /\ prev[p].outcome = "forbidden"
        /\ course_index[SplitCourse] = Versions(1, 0)

\* C13: the steps of a request follow the order resolution, capability
\* check, read of the branch versions, equality check, dry-run check, move.
\* The branch versions are never read for a course on a store without force
\* publish, and the move is reached only after the versions were read and
\* found different with the dry-run parameter empty.
C13_StepsInOrder ==
    \A p \in Procs :
        /\ pc[p] \in {"capability", "versions", "compare", "publish"} =>
              /\ request[p].course_id \in WellFormedKeys \ {AbsentCourse}
              /\ locals[p].course_usage_key # None
              /\ ~context[p].error
        /\ pc[p] \in {"versions", "compare", "publish"} =>
              /\ request[p].course_id \in SplitCourses
              /\ locals[p].source_store = "split"
        /\ pc[p] \in {"capability", "versions"} =>
              /\ locals[p].current_versions = None
              /\ context[p].current_versions = EmptyList
        /\ pc[p] \in {"compare", "publish"} => locals[p].current_versions # None
        /\ pc[p] = "compare" => context[p].current_versions = EmptyList
        /\ pc[p] = "publish" =>
              /\ locals[p].current_versions.draft_branch
                    # locals[p].current_versions.published_branch
              /\ context[p].current_versions = locals[p].current_versions
              /\ request[p].dry_run = ""
        /\ request[p].course_id = MongoCourse =>
              /\ pc[p] \in {"capability", "done"}
              /\ context[p].current_versions = EmptyList
              /\ context[p].updated_versions = EmptyList
        /\ (pc[p] = "done" /\ context[p].updated_versions # EmptyList) =>
              /\ context[p].current_versions # EmptyList
              /\ request[p].dry_run = ""

C13_Witness ==
    \E p, q \in Procs :
        /\ pc[p] = "publish"
        /\ pc[q] = "capability" /\ request[q].course_id = MongoCourse

\* A step of a request handler, as opposed to one of the environment.
HandlerStep == calls' # calls \/ pc' # pc

\* Handler p's step is the call of force_publish_course that ends in the
\* applied outcome; it ends the request, so a request has at most one.
AppliedStep(p) == pc[p] = "publish" /\ pc'[p] = "done" /\ returned'[p] = 229

\* C14: the only change a request makes to the store is one move of the
\* published pointer of its own course, in the step that ends it as applied:
\* the draft pointer of that course and both pointers of every other course
\* stay, and a request that ends otherwise changes no pointer.
C14_OnlyPublishedPointerMoves ==
    /\ [](\A p \in Procs :
            (Alone(p) /\ returned[p] # 229) => course_index = pre[p])
    /\ [][HandlerStep =>
            \/ course_index' = course_index
            \/ \E p \in Procs :
                  /\ AppliedStep(p)
                  /\ \A c \in DOMAIN course_index \ {request[p].course_id} :
                        course_index'[c] = course_index[c]
                  /\ course_index'[request[p].course_id].draft_branch
                        = course_index[request[p].course_id].draft_branch]_vars

C14_Witness ==
    \E p \in Procs :
        /\ Alone(p) /\ returned[p] = 229
        /\ course_index[request[p].course_id] # pre[p][request[p].course_id]
        /\ course_index[OtherCourse] = Versions(1, 0)

\* C15: a commit that reached the move and got no updated versions from it,
\* because the move failed or returned nothing, ends rendered with the
\* message "Could not publish course.".
C15_FailedMoveIsReported ==
    \A p \in Procs :
        (/\ pc[p] = "done"
         /\ request[p].dry_run = ""
         /\ context[p].current_versions # EmptyList
         /\ context[p].updated_versions = EmptyList) =>
            /\ response[p] = "rendered"
            /\ context[p].msg = "Could not publish course."

\* C16: a request inside post() can always take its next step, and a request
\* that has ended has ended in one of the terminal outcomes: already
\* published, dry run, applied, or one of the failures.
C16_EndsInTerminalOutcome ==
    \A p \in Procs :
        /\ pc[p] \in {"capability", "versions", "compare", "publish"} =>
              ENABLED (\/ CapabilityCheck(p) \/ GetCourseVersions(p)
                       \/ Compare(p) \/ ForcePublish(p))
        /\ Finished(p) =>
              Outcome(p) \in {"already_published", "dry_run", "applied",
                              "resolution_failed", "unsupported_backend",
                              "could_not_publish"}

\* C17: a request is a dry run exactly when its dry-run parameter is
\* present and not empty.  A request without the parameter, or with it
\* empty, is a commit: alone on a split course whose branches differ it
\* moves the published pointer.  A view that has received no request shows
\* dry run set.
C17_DryRunOnlyWhenParameterSet ==
    \A p \in Procs :
        /\ pc[p] = "idle" => context[p].form_data.is_dry_run
        /\ request[p].user = GlobalStaff =>
              /\ context[p].form_data.is_dry_run
                    <=> request[p].dry_run \notin {NoParam, ""}
              /\ pc[p] = "publish" => request[p].dry_run \in {NoParam, ""}
              /\ (pc[p] = "done" /\ returned[p] = 203) => request[p].dry_run = "on"
              /\ (Alone(p) /\ DivergedBefore(p)) =>
                    LET c == request[p].course_id
                    IN IF request[p].dry_run \in {NoParam, ""}
                       THEN /\ returned[p] = 229
                            /\ course_index[c].published_branch
                                    = pre[p][c].draft_branch
                       ELSE /\ returned[p] = 203
                            /\ course_index = pre[p]

C17_Witness ==
    \E p \in Procs :
        /\ Alone(p) /\ DivergedBefore(p)
        /\ request[p].dry_run = NoParam
        /\ returned[p] = 229
        /\ course_index[request[p].course_id].published_branch
                # pre[p][request[p].course_id].published_branch

\* C18: in every rendered result the error flag is set exactly when the
\* course could not be resolved, that is when the request ended at the return
\* of the except clauses (line 167) because its course id was empty, no
\* course key, or the key of no course in the store.  The unsupported,
\* already published and could-not-publish results carry their non-empty
\* message with the flag unset; the dry-run and applied results carry the
\* flag unset and an empty message.
C18_ErrorFlagAndMessage ==
    \A p \in Procs :
        (pc[p] = "done" /\ response[p] = "rendered") =>
            /\ returned[p] \in {167, 179, 192, 203, 215, 229}
            /\ context[p].error <=> returned[p] = 167
            /\ context[p].error =>
                  /\ context[p].msg # ""
                  /\ \/ request[p].course_id \notin WellFormedKeys
                     \/ request[p].course_id = AbsentCourse
                     \/ request[p].course_id \in SplitCourses
            /\ Alone(p) =>
                  (context[p].error <=>
                       validate_course_key(pre[p], request[p].course_id).raised # "")
            /\ returned[p] = 179 => context[p].msg = MSG_UNSUPPORTED
            /\ returned[p] = 192 => context[p].msg = MSG_ALREADY_PUBLISHED
            /\ returned[p] = 215 => context[p].msg = MSG_COULD_NOT_PUBLISH
            /\ returned[p] \in {179, 192, 215} => context[p].msg # ""
            /\ returned[p] \in {203, 229} => context[p].msg = ""

C18_Witness ==
    \E p, q \in Procs :
        /\ pc[p] = "done" /\ response[p] = "rendered"
        /\ returned[p] = 167 /\ context[p].error
        /\ pc[q] = "done" /\ response[q] = "rendered"
        /\ returned[q] = 215 /\ ~context[q].error
        /\ context[q].msg = MSG_COULD_NOT_PUBLISH

\* C19: in every rendered result the updated versions are present exactly
\* when the request ended as applied (line 229), and the current versions are
\* present exactly when the branch versions were read and found different
\* (dry run, could not publish, applied); after a resolution failure, on an
\* unsupported store and on an already published course both are empty.
\* When both are present for a request that ran alone, the current versions
\* are the course's versions before the move and the updated versions are
\* the versions the move left in the store.
C19_VersionsInResult ==
    \A p \in Procs :
        (pc[p] = "done" /\ response[p] = "rendered") =>
            LET c == request[p].course_id
                current == context[p].current_versions
                updated == context[p].updated_versions
            IN /\ updated # EmptyList <=> returned[p] = 229
               /\ current # EmptyList <=> returned[p] \in {203, 215, 229}
               /\ returned[p] \in {167, 179, 192} =>
                     current = EmptyList /\ updated = EmptyList
               /\ current # EmptyList =>
                     current.draft_branch # current.published_branch
               /\ (Alone(p) /\ current # EmptyList /\ updated # EmptyList) =>
                     /\ current = pre[p][c]
                     /\ updated = course_index[c]
                     /\ updated = Versions(current.draft_branch, current.draft_branch)

C19_Witness ==
    \E p, q \in Procs :
        /\ Alone(p) /\ returned[p] = 229
        /\ context[p].current_versions = pre[p][request[p].course_id]
        /\ context[p].updated_versions = course_index[request[p].course_id]
        /\ context[p].updated_versions # context[p].current_versions
        /\ pc[q] = "done" /\ returned[q] = 192
        /\ context[q].current_versions = EmptyList

====
